---- MODULE Spec2Model ----
(***************************************************************************)
(* Order lifecycle of the barista backend: checkout from the cart, status  *)
(* transitions with their history trail, PayPal session creation and       *)
(* capture, and the in-memory registry that pushes status events.          *)
(*                                                                         *)
(* A request is served by a worker thread with an ORM session of its own.  *)
(* Each action below is one step of a handler between two points at which  *)
(* other requests can observe or change the database: a query, a commit,   *)
(* or a round trip to the payment processor.  Money is kept in cents       *)
(* (Numeric(10, 2) columns).                                               *)
(***************************************************************************)
EXTENDS Integers, Sequences, FiniteSets, TLC

VARIABLES
    menu,                \* menu_items table: id -> row
    cart,                \* cart_items table, per user, in row-id order
    orders,              \* orders table, indexed by order id
    order_items,         \* order_items table, in row-id order
    history,             \* order_status_history table, in row-id order
    active_connections,  \* OrderWebSocketManager.active_connections
    delivered,           \* per channel: the events pushed to it so far
    bcast,               \* broadcast_status coroutines in flight on the event loop
    chan,                \* per channel: the state of its websocket handler
    pc,                  \* per request slot: position in its handler
    args,                \* per request slot: the call and its arguments
    obj,                 \* per request slot: the session's Order object
    loc,                 \* per request slot: the handler's local variables
    result,              \* per request slot: what the call returned or raised
    ncalls               \* number of requests begun so far

vars == << menu, cart, orders, order_items, history, active_connections,
           delivered, bcast, chan, pc, args, obj, loc, result, ncalls >>

dbvars == << menu, cart, orders, order_items, history >>
wsvars == << active_connections, delivered, bcast, chan >>

---------------------------------------------------------------------------
(* Bounds of the model *)

MaxCalls == 3        \* requests begun in one behaviour of the order lifecycle
MaxConcCalls == 3    \* requests begun in one behaviour with two worker threads
MaxCartCalls == 3    \* requests begun in one behaviour of the checkout study
MaxQuantity == 2     \* largest quantity of one add-to-cart request
MaxCartLines == 2    \* cart lines a user accumulates
MaxGuardCalls == 3   \* requests begun in one behaviour of the payment guards
MaxTrackCalls == 2   \* transitions begun in one behaviour of the status tracking
MaxTrackConcCalls == 2  \* transitions begun by two threads with status tracking
MaxRegistryCalls == 4   \* calls of the registry's methods in one behaviour
MaxFrameCalls == 3      \* requests begun in one behaviour with catalog edits
MaxCrossCalls == 2      \* requests begun in one behaviour over two orders

\* A request is begun only while the budget n lasts.
Budget(n) == ncalls < n /\ ncalls' = ncalls + 1

Procs == {"r1", "r2"}          \* request slots (worker threads)
MainProc == "r1"
Customers == {1, 2}
StaffUsers == {3}
Users == Customers \cup StaffUsers
MenuIds == {1, 2}
Prices == {350, 425}           \* 3.50 and 4.25, in cents
Channels == {"c1", "c2"}
SessionIds == {"SA", "SB"}     \* PayPal order ids
CaptureIds == {"T1", "T2"}     \* PayPal capture (transaction) ids

NULL == "NULL"                 \* a NULL column / Python None

OrderStatus ==
    {"PENDING", "ACCEPTED", "IN_PREPARATION", "READY_FOR_PICKUP",
     "COMPLETED", "CANCELED"}

---------------------------------------------------------------------------
(* Rows and records *)

NoOrder ==
    [id |-> 0, user_id |-> 0, status |-> NULL, total_amount |-> 0,
     payment_provider |-> NULL, payment_status |-> NULL,
     paypal_order_id |-> NULL, paypal_capture_id |-> NULL]

\* Order(user_id=..., status=PENDING, total_amount=...): the payment columns
\* are nullable and unset.
NewOrder(id, user_id, total_amount) ==
    [id |-> id, user_id |-> user_id, status |-> "PENDING",
     total_amount |-> total_amount,
     payment_provider |-> NULL, payment_status |-> NULL,
     paypal_order_id |-> NULL, paypal_capture_id |-> NULL]

HistoryRowWrongUser(order_id, status, changed_by_user_id) ==
    [order_id |-> order_id, status |-> status, changed_by_user_id |-> 0]

\* OrderStatusHistory(order_id=..., status=..., changed_by_user_id=...)
HistoryRow(order_id, status, changed_by_user_id) ==
    [order_id |-> order_id, status |-> status,
     changed_by_user_id |-> changed_by_user_id]

\* A decimal literal of a JSON body: digits / 10^exp, or text that is no number
NoAmount == [valid |-> FALSE, digits |-> 0, exp |-> 0]

\* No capture request was sent
NoResponse ==
    [code |-> -1, json |-> FALSE, status |-> NULL, has_units |-> FALSE,
     custom_id |-> NULL, has_capture |-> FALSE, txn |-> NULL,
     amount |-> NoAmount]

NoArgs ==
    [op |-> "none", user |-> 0, order_id |-> 0, new_status |-> NULL,
     paypal_order_id |-> NULL, ctx |-> NULL, websocket |-> NULL]

\* A websocket that has not reached the server yet
NewChannel == [st |-> "new", order_id |-> 0, user |-> 0]

NoLoc ==
    [cart_items |-> << >>, order_items |-> << >>, total |-> 0,
     label |-> NULL, message |-> NULL, status |-> NULL, txn |-> NULL,
     again |-> FALSE, resp |-> NoResponse]

NoResult ==
    [kind |-> "none", exc |-> NULL, retryable |-> FALSE, message |-> NULL,
     order_id |-> 0, status |-> NULL, id |-> NULL]

Raise(exc, message, retryable) ==
    [kind |-> "raise", exc |-> exc, retryable |-> retryable,
     message |-> message, order_id |-> 0, status |-> NULL, id |-> NULL]

ReturnOrder(order) ==
    [kind |-> "return", exc |-> NULL, retryable |-> FALSE, message |-> NULL,
     order_id |-> order.id, status |-> order.status, id |-> NULL]

ReturnPair(order_id, status, id) ==
    [kind |-> "return", exc |-> NULL, retryable |-> FALSE, message |-> NULL,
     order_id |-> order_id, status |-> status, id |-> id]

OrderIds == 1 .. Len(orders)

\* The history rows of one order, oldest first.
HistoryOf(o) == SelectSeq(history, LAMBDA h : h.order_id = o)

\* The order_items rows of one order.
ItemsOf(o) == SelectSeq(order_items, LAMBDA r : r.order_id = o)

---------------------------------------------------------------------------
(* The ORM session *)

\* Unit of work at flush: an UPDATE carries only the columns whose value on
\* the object differs from the value the session loaded or last wrote
\* ("committed"); the other columns of the row keep what the database holds.
\* The session is created with expire_on_commit=False, so the object is not
\* reloaded by a commit.
Flush(row, committed, current) ==
    [f \in DOMAIN row |->
        IF current[f] # committed[f] THEN current[f] ELSE row[f]]

---------------------------------------------------------------------------
(* Checkout: order_service.create_order_from_cart *)

LineTotalSum(unit_price, quantity) == unit_price + quantity

\* line_total = unit_price * cart_item.quantity
LineTotal(unit_price, quantity) == unit_price * quantity

ItemOrderableAlways(menu_item) == TRUE

\* not (not menu_item or not menu_item.is_available)
ItemOrderable(menu_item) == menu_item.present /\ menu_item.is_available

\* The loop of _validate_and_build_order_items from cart line i on: stops at
\* the first line whose menu item is missing or unavailable.
RECURSIVE build_order_items(_, _, _, _)
build_order_items(m, cart_items, i, acc) ==
    IF i > Len(cart_items) THEN acc
    ELSE
        LET cart_item == cart_items[i]
            menu_item == m[cart_item.menu_item_id]
        IN  IF ~ItemOrderable(menu_item)
            THEN [acc EXCEPT !.ok = FALSE,
                             !.unavailable = cart_item.menu_item_id]
            ELSE
                LET unit_price == menu_item.price
                    line_total == LineTotal(unit_price, cart_item.quantity)
                    item == [order_id |-> 0,
                             menu_item_id |-> cart_item.menu_item_id,
                             quantity |-> cart_item.quantity,
                             unit_price |-> unit_price,
                             line_total |-> line_total]
                IN  build_order_items(m, cart_items, i + 1,
                        [acc EXCEPT !.order_items = Append(@, item),
                                    !.total = @ + line_total])

validate_and_build_order_items(m, cart_items) ==
    build_order_items(m, cart_items, 1,
        [ok |-> TRUE, unavailable |-> 0, order_items |-> << >>, total |-> 0])

\* item.order_id = order.id, for each built item
WithOrderId(items, order_id) ==
    [i \in 1 .. Len(items) |-> [items[i] EXCEPT !.order_id = order_id]]

\* cart_items = get_cart_items_for_user(...); EmptyCartError;
\* _validate_and_build_order_items(...), which may raise ItemUnavailableError.
checkout_read(p, u) ==
    /\ pc[p] = "idle"
    /\ args' = [args EXCEPT ![p] = [NoArgs EXCEPT !.op = "checkout", !.user = u]]
    /\ LET cart_items == cart[u]
           built == validate_and_build_order_items(menu, cart_items)
       IN  IF cart_items = << >>
           THEN /\ pc' = [pc EXCEPT ![p] = "done"]
                /\ result' = [result EXCEPT
                       ![p] = Raise("EmptyCartError", "Cart is empty", FALSE)]
                /\ loc' = loc
           ELSE IF ~built.ok
           THEN /\ pc' = [pc EXCEPT ![p] = "done"]
                /\ result' = [result EXCEPT
                       ![p] = Raise("ItemUnavailableError", "unavailable", FALSE)]
                /\ loc' = loc
           ELSE /\ pc' = [pc EXCEPT ![p] = "checkout_commit"]
                /\ loc' = [loc EXCEPT ![p] =
                       [NoLoc EXCEPT !.cart_items = cart_items,
                                     !.order_items = built.order_items,
                                     !.total = built.total]]
                /\ result' = result
    /\ UNCHANGED << dbvars, wsvars, obj >>

\* db.add(order); db.flush(); the items; the PENDING history row; db.commit();
\* db.refresh(order)
checkout_commit(p) ==
    /\ pc[p] = "checkout_commit"
    /\ LET id == Len(orders) + 1
           order == NewOrder(id, args[p].user, loc[p].total)
       IN  /\ orders' = Append(orders, order)
           /\ order_items' = order_items \o WithOrderId(loc[p].order_items, id)
           /\ history' = Append(history, HistoryRow(id, "PENDING", args[p].user))
           /\ obj' = [obj EXCEPT ![p] = order]
    /\ pc' = [pc EXCEPT ![p] = "checkout_clear"]
    /\ UNCHANGED << menu, cart, wsvars, args, loc, result, ncalls >>

\* clear_cart(db, user_id): DELETE FROM cart_items WHERE user_id = ...; commit;
\* return order
checkout_clear(p) ==
    /\ pc[p] = "checkout_clear"
    /\ cart' = [cart EXCEPT ![args[p].user] = << >>]
    /\ pc' = [pc EXCEPT ![p] = "done"]
    /\ result' = [result EXCEPT ![p] = ReturnOrder(obj[p])]
    /\ UNCHANGED << menu, orders, order_items, history, wsvars, args, obj, loc,
                    ncalls >>

---------------------------------------------------------------------------
(* Cart and catalog collaborators *)

\* cart_service.add_item_to_cart: increment the user's line for the menu item
\* or insert a new line.
add_item_to_cart(u, m, q) ==
    /\ q > 0
    /\ LET lines == cart[u]
           hit == {i \in 1 .. Len(lines) : lines[i].menu_item_id = m}
       IN  IF hit # {}
           THEN LET i == CHOOSE j \in hit : \A k \in hit : j <= k
                IN  cart' = [cart EXCEPT ![u][i].quantity = @ + q]
           ELSE /\ Len(lines) < MaxCartLines
                /\ cart' = [cart EXCEPT ![u] =
                       Append(@, [menu_item_id |-> m, quantity |-> q])]
    /\ UNCHANGED << menu, orders, order_items, history, wsvars, pc, args, obj,
                    loc, result >>

update_menu_item_and_orders(m, price, is_available) ==
    /\ menu[m].present
    /\ menu' = [menu EXCEPT ![m].price = price, ![m].is_available = is_available]
    /\ menu' # menu
    /\ order_items' = [i \in 1 .. Len(order_items) |->
           IF order_items[i].menu_item_id = m
           THEN [order_items[i] EXCEPT !.unit_price = price]
           ELSE order_items[i]]
    /\ UNCHANGED << cart, orders, history, wsvars, pc, args, obj, loc, result >>

\* menu_service.update_menu_item with price and/or is_available set
update_menu_item(m, price, is_available) ==
    /\ menu[m].present
    /\ menu' = [menu EXCEPT ![m].price = price, ![m].is_available = is_available]
    /\ menu' # menu
    /\ UNCHANGED << cart, orders, order_items, history, wsvars, pc, args, obj,
                    loc, result >>

\* menu_service.delete_menu_item: cart lines keep their menu_item_id (the
\* foreign key carries no cascade), so a cart can reference a missing item.
delete_menu_item(m) ==
    /\ menu[m].present
    /\ menu' = [menu EXCEPT ![m].present = FALSE]
    /\ UNCHANGED << cart, orders, order_items, history, wsvars, pc, args, obj,
                    loc, result >>

---------------------------------------------------------------------------
(* Status broadcast registry: order_tracking_service.OrderWebSocketManager *)

\* list.remove(x): drops the first occurrence of x
RECURSIVE RemoveFirst(_, _)
RemoveFirst(s, x) ==
    IF s = << >> THEN << >>
    ELSE IF Head(s) = x THEN Tail(s)
    ELSE << Head(s) >> \o RemoveFirst(Tail(s), x)

InSeq(s, x) == \E i \in 1 .. Len(s) : s[i] = x

remove_connection_keep_empty(reg, order_id, websocket) ==
    IF order_id \in DOMAIN reg
    THEN [reg EXCEPT ![order_id] = RemoveFirst(@, websocket)]
    ELSE reg

\* OrderWebSocketManager._remove_connection
remove_connection(reg, order_id, websocket) ==
    IF order_id \in DOMAIN reg
    THEN LET kept == IF InSeq(reg[order_id], websocket)
                     THEN RemoveFirst(reg[order_id], websocket)
                     ELSE reg[order_id]
         IN  IF kept = << >>
             THEN [k \in DOMAIN reg \ {order_id} |-> reg[k]]
             ELSE [reg EXCEPT ![order_id] = kept]
    ELSE reg

RECURSIVE remove_all(_, _, _)
remove_all(reg, order_id, dead) ==
    IF dead = << >> THEN reg
    ELSE remove_all(remove_connection(reg, order_id, Head(dead)), order_id,
                    Tail(dead))

broadcast_status_all(reg, deliv, event, fails) ==
    LET registered(ws) == \E o \in DOMAIN reg : InSeq(reg[o], ws)
    IN  [reg |-> reg,
         delivered |-> [ws \in DOMAIN deliv |->
                          IF registered(ws) /\ ws \notin fails
                          THEN Append(deliv[ws], event)
                          ELSE deliv[ws]]]

\* OrderWebSocketManager.broadcast_status, with `fails` the channels whose
\* send_json raises: every listed connection is tried in list order, the
\* failing ones are collected and removed after the loop.
broadcast_status(reg, deliv, event, fails) ==
    LET connections == IF event.orderId \in DOMAIN reg
                       THEN reg[event.orderId] ELSE << >>
        sent == SelectSeq(connections, LAMBDA ws : ws \notin fails)
        dead_connections == SelectSeq(connections, LAMBDA ws : ws \in fails)
        pushes(ws) == SelectSeq(sent, LAMBDA x : x = ws)
    IN  [reg |-> remove_all(reg, event.orderId, dead_connections),
         delivered |-> [ws \in DOMAIN deliv |->
                          deliv[ws] \o [i \in 1 .. Len(pushes(ws)) |-> event]]]

ConnectionsOf(order_id) ==
    IF order_id \in DOMAIN active_connections
    THEN {active_connections[order_id][i] :
              i \in 1 .. Len(active_connections[order_id])}
    ELSE {}

---------------------------------------------------------------------------
(* Transition: order_service.update_order_status *)

\* The body of update_order_status once the order object is in the session:
\* order.status = new_status; the history row; db.commit(); db.refresh(order);
\* the event built from the refreshed order; the broadcast.
transition(p, new_status, staff_user_id, fails) ==
    LET o == obj[p].id
        current == [obj[p] EXCEPT !.status = new_status]
        row == Flush(orders[o], obj[p], current)
        event == [orderId |-> row.id, status |-> row.status]
        sent == broadcast_status(active_connections, delivered, event, fails)
    IN  /\ orders' = [orders EXCEPT ![o] = row]
        /\ history' = Append(history, HistoryRow(o, new_status, staff_user_id))
        /\ obj' = [obj EXCEPT ![p] = row]
        /\ active_connections' = sent.reg
        /\ delivered' = sent.delivered
        /\ UNCHANGED << bcast, chan >>

\* PATCH /orders/{order_id}/status: get_order_by_id in the request's session
status_load(p, o, new_status, staff_user_id) ==
    /\ pc[p] = "idle"
    /\ args' = [args EXCEPT ![p] =
           [NoArgs EXCEPT !.op = "update_order_status", !.user = staff_user_id,
                          !.order_id = o, !.new_status = new_status]]
    /\ IF o \notin OrderIds
       THEN /\ pc' = [pc EXCEPT ![p] = "done"]
            /\ result' = [result EXCEPT
                   ![p] = Raise("OrderNotFoundError", "Order not found", FALSE)]
            /\ obj' = obj
       ELSE /\ pc' = [pc EXCEPT ![p] = "status_commit"]
            /\ obj' = [obj EXCEPT ![p] = orders[o]]
            /\ result' = result
    /\ UNCHANGED << dbvars, wsvars, loc >>

status_commit(p) ==
    /\ pc[p] = "status_commit"
    /\ \E fails \in SUBSET ConnectionsOf(obj[p].id) :
           transition(p, args[p].new_status, args[p].user, fails)
    /\ pc' = [pc EXCEPT ![p] = "done"]
    /\ result' = [result EXCEPT ![p] = ReturnOrder(obj'[p])]
    /\ UNCHANGED << menu, cart, order_items, args, loc, ncalls >>

---------------------------------------------------------------------------
(* Payment processor and payment_service *)

TruthyNever(s) == FALSE

\* truthiness of an optional string: None and "" are false
Truthy(s) == s \notin {NULL, ""}

\* str(order.id)
IdStr(n) == << "1", "2", "3", "4", "5", "6", "7", "8", "9" >>[n]

RECURSIVE Pow10(_)
Pow10(n) == IF n = 0 THEN 1 ELSE 10 * Pow10(n - 1)

AmountMatchesAlways(amount, total_amount) == TRUE

AmountMatchesNever(amount, total_amount) == FALSE

\* not (Decimal(capture["amount"]["value"]) != order.total_amount), with the
\* total in cents: Decimal compares by numeric value, whatever the scale.
AmountMatches(amount, total_amount) ==
    amount.digits * Pow10(2) = total_amount * Pow10(amount.exp)

\* _http_post + _get_paypal_access_token, for the token endpoint's answer
\* (code 0: httpx.RequestError)
get_paypal_access_token(tok) ==
    IF tok.code = 0
    THEN [ok |-> FALSE, error |-> Raise("PayPalAPIError", "TRANSIENT_ERROR", TRUE)]
    ELSE IF tok.code # 200
    THEN [ok |-> FALSE,
          error |-> Raise("PayPalAPIError",
                          "Failed to obtain PayPal access token",
                          tok.code >= 500)]
    ELSE IF ~tok.has_token
    THEN [ok |-> FALSE, error |-> Raise("KeyError", "access_token", FALSE)]
    ELSE [ok |-> TRUE, error |-> NoResult]

Verdict(kind, error, label, message, again, status, txn) ==
    [kind |-> kind, error |-> error, label |-> label, message |-> message,
     again |-> again, status |-> status, txn |-> txn]

Cancel(label, message, again) ==
    Verdict("cancel", NoResult, label, message, again, NULL, NULL)

CaptureVerdictAlwaysCancel(order, resp) ==
    Cancel("FAILED", "PayPal capture failed", FALSE)

\* capture_paypal_order from the capture endpoint's answer to the decision:
\* raise at once, cancel the order (_cancel_order_due_to_payment), or accept.
\* The custom-id check sits inside the try block, so the PayPalAPIError its
\* cancellation raises is caught by `except Exception` and the order is
\* cancelled a second time (again = TRUE).
capture_verdict(order, resp) ==
    IF resp.code = 0
    THEN Verdict("raise", Raise("PayPalAPIError", "TRANSIENT_ERROR", TRUE),
                 NULL, NULL, FALSE, NULL, NULL)
    ELSE IF resp.code >= 500
    THEN Verdict("raise", Raise("PayPalAPIError", "TRANSIENT_ERROR", TRUE),
                 NULL, NULL, FALSE, NULL, NULL)
    ELSE IF ~resp.json
    THEN Verdict("raise", Raise("JSONDecodeError", "resp.json()", FALSE),
                 NULL, NULL, FALSE, NULL, NULL)
    ELSE IF resp.code \notin {200, 201}
    THEN Cancel("FAILED", "PayPal capture failed", FALSE)
    ELSE IF resp.status # "COMPLETED"
    THEN Cancel(IF Truthy(resp.status) THEN resp.status ELSE "FAILED",
                "PayPal capture not completed", FALSE)
    ELSE IF ~resp.has_units
    THEN Cancel("FAILED", "Unexpected PayPal capture response", FALSE)
    ELSE IF Truthy(resp.custom_id) /\ resp.custom_id # IdStr(order.id)
    THEN Cancel("FAILED", "Custom ID mismatch", TRUE)
    ELSE IF ~resp.has_capture \/ ~resp.amount.valid
    THEN Cancel("FAILED", "Unexpected PayPal capture response", FALSE)
    ELSE IF ~AmountMatches(resp.amount, order.total_amount)
    THEN Cancel("AMOUNT_MISMATCH", "Captured amount mismatch", FALSE)
    ELSE Verdict("accept", NoResult, NULL, NULL, FALSE, resp.status, resp.txn)

\* capture_paypal_order up to the processor calls: get_order_by_id,
\* _ensure_order_owner, the stored-session check
capture_load(p, o, paypal_order_id, user_id) ==
    /\ pc[p] = "idle"
    /\ args' = [args EXCEPT ![p] =
           [NoArgs EXCEPT !.op = "capture_paypal_order", !.user = user_id,
                          !.order_id = o, !.paypal_order_id = paypal_order_id]]
    /\ IF o \notin OrderIds
       THEN /\ pc' = [pc EXCEPT ![p] = "done"]
            /\ result' = [result EXCEPT
                   ![p] = Raise("OrderNotFoundError", "Order not found", FALSE)]
            /\ obj' = obj
       ELSE IF orders[o].user_id # user_id
       THEN /\ pc' = [pc EXCEPT ![p] = "done"]
            /\ result' = [result EXCEPT
                   ![p] = Raise("OrderPaymentError",
                                "You do not have access to this order", FALSE)]
            /\ obj' = obj
       ELSE IF /\ Truthy(orders[o].paypal_order_id)
               /\ orders[o].paypal_order_id # paypal_order_id
       THEN /\ pc' = [pc EXCEPT ![p] = "done"]
            /\ result' = [result EXCEPT
                   ![p] = Raise("OrderPaymentError", "PayPal order ID mismatch",
                                FALSE)]
            /\ obj' = obj
       ELSE /\ pc' = [pc EXCEPT ![p] = "capture_post"]
            /\ obj' = [obj EXCEPT ![p] = orders[o]]
            /\ result' = result
    /\ UNCHANGED << dbvars, wsvars, loc >>

\* The token request, the capture request and the verification of its answer
capture_post(p, tok, resp) ==
    /\ pc[p] = "capture_post"
    /\ LET token == get_paypal_access_token(tok)
           verdict == capture_verdict(obj[p], resp)
       IN  IF ~token.ok
           THEN /\ pc' = [pc EXCEPT ![p] = "done"]
                /\ result' = [result EXCEPT ![p] = token.error]
                /\ loc' = loc
           ELSE IF verdict.kind = "raise"
           THEN /\ pc' = [pc EXCEPT ![p] = "done"]
                /\ result' = [result EXCEPT ![p] = verdict.error]
                /\ loc' = [loc EXCEPT ![p] = [NoLoc EXCEPT !.resp = resp]]
           ELSE IF verdict.kind = "cancel"
           THEN /\ pc' = [pc EXCEPT ![p] = "cancel_pay"]
                /\ loc' = [loc EXCEPT ![p] =
                       [NoLoc EXCEPT !.resp = resp, !.label = verdict.label,
                                     !.message = verdict.message,
                                     !.again = verdict.again]]
                /\ result' = result
           ELSE /\ pc' = [pc EXCEPT ![p] = "accept_pay"]
                /\ loc' = [loc EXCEPT ![p] =
                       [NoLoc EXCEPT !.resp = resp, !.status = verdict.status,
                                     !.txn = verdict.txn]]
                /\ result' = result
    /\ UNCHANGED << dbvars, wsvars, args, obj, ncalls >>

\* _cancel_order_due_to_payment: payment_provider, payment_status; db.commit()
cancel_pay(p) ==
    /\ pc[p] = "cancel_pay"
    /\ LET o == obj[p].id
           current == [obj[p] EXCEPT !.payment_provider = "PAYPAL",
                                     !.payment_status = loc[p].label]
       IN  /\ orders' = [orders EXCEPT ![o] = Flush(orders[o], obj[p], current)]
           /\ obj' = [obj EXCEPT ![p] = current]
    /\ pc' = [pc EXCEPT ![p] = "cancel_status"]
    /\ UNCHANGED << menu, cart, order_items, history, wsvars, args, loc, result,
                    ncalls >>

\* _cancel_order_due_to_payment: update_order_status(CANCELED) on behalf of the
\* order's user, then raise PayPalAPIError(message, retryable=False); raised
\* from inside the try block it is caught and the cancellation runs again.
cancel_status(p) ==
    /\ pc[p] = "cancel_status"
    /\ \E fails \in SUBSET ConnectionsOf(obj[p].id) :
           transition(p, "CANCELED", obj[p].user_id, fails)
    /\ IF loc[p].again
       THEN /\ pc' = [pc EXCEPT ![p] = "cancel_pay"]
            /\ loc' = [loc EXCEPT ![p].label = "FAILED",
                                  ![p].message = "Unexpected PayPal capture response",
                                  ![p].again = FALSE]
            /\ result' = result
       ELSE /\ pc' = [pc EXCEPT ![p] = "done"]
            /\ result' = [result EXCEPT
                   ![p] = Raise("PayPalAPIError", loc[p].message, FALSE)]
            /\ loc' = loc
    /\ UNCHANGED << menu, cart, order_items, args, ncalls >>

\* capture_paypal_order: the payment columns and the capture id; db.commit()
accept_pay(p) ==
    /\ pc[p] = "accept_pay"
    /\ LET o == obj[p].id
           current == [obj[p] EXCEPT !.payment_provider = "PAYPAL",
                                     !.payment_status = loc[p].status,
                                     !.paypal_order_id = args[p].paypal_order_id,
                                     !.paypal_capture_id = loc[p].txn]
       IN  /\ orders' = [orders EXCEPT ![o] = Flush(orders[o], obj[p], current)]
           /\ obj' = [obj EXCEPT ![p] = current]
    /\ pc' = [pc EXCEPT ![p] = "accept_status"]
    /\ UNCHANGED << menu, cart, order_items, history, wsvars, args, loc, result,
                    ncalls >>

\* capture_paypal_order: update_order_status(ACCEPTED); return status, id
accept_status(p) ==
    /\ pc[p] = "accept_status"
    /\ \E fails \in SUBSET ConnectionsOf(obj[p].id) :
           transition(p, "ACCEPTED", obj[p].user_id, fails)
    /\ pc' = [pc EXCEPT ![p] = "done"]
    /\ result' = [result EXCEPT
           ![p] = ReturnPair(args[p].order_id, loc[p].status, loc[p].txn)]
    /\ UNCHANGED << menu, cart, order_items, args, loc, ncalls >>

\* create_paypal_order up to the processor calls: get_order_by_id,
\* _ensure_order_owner, the PENDING check, the positive-total check
create_load(p, o, user_id) ==
    /\ pc[p] = "idle"
    /\ args' = [args EXCEPT ![p] =
           [NoArgs EXCEPT !.op = "create_paypal_order", !.user = user_id,
                          !.order_id = o]]
    /\ IF o \notin OrderIds
       THEN /\ pc' = [pc EXCEPT ![p] = "done"]
            /\ result' = [result EXCEPT
                   ![p] = Raise("OrderNotFoundError", "Order not found", FALSE)]
            /\ obj' = obj
       ELSE IF orders[o].user_id # user_id
       THEN /\ pc' = [pc EXCEPT ![p] = "done"]
            /\ result' = [result EXCEPT
                   ![p] = Raise("OrderPaymentError",
                                "You do not have access to this order", FALSE)]
            /\ obj' = obj
       ELSE IF orders[o].status # "PENDING"
       THEN /\ pc' = [pc EXCEPT ![p] = "done"]
            /\ result' = [result EXCEPT
                   ![p] = Raise("OrderPaymentError",
                                "Order must be PENDING before initiating payment",
                                FALSE)]
            /\ obj' = obj
       ELSE IF orders[o].total_amount <= 0
       THEN /\ pc' = [pc EXCEPT ![p] = "done"]
            /\ result' = [result EXCEPT
                   ![p] = Raise("OrderPaymentError",
                                "Order total must be greater than zero", FALSE)]
            /\ obj' = obj
       ELSE /\ pc' = [pc EXCEPT ![p] = "create_post"]
            /\ obj' = [obj EXCEPT ![p] = orders[o]]
            /\ result' = result
    /\ UNCHANGED << dbvars, wsvars, loc >>

\* create_paypal_order: the token request, the create request, and on success
\* the payment columns; db.commit(); db.refresh(order)
create_post(p, tok, resp) ==
    /\ pc[p] = "create_post"
    /\ pc' = [pc EXCEPT ![p] = "done"]
    /\ LET token == get_paypal_access_token(tok)
           o == obj[p].id
           status == IF resp.status = NULL THEN "CREATED" ELSE resp.status
           current == [obj[p] EXCEPT !.payment_provider = "PAYPAL",
                                     !.payment_status = status,
                                     !.paypal_order_id = resp.id]
           row == Flush(orders[o], obj[p], current)
           failure ==
               IF ~token.ok THEN token.error
               ELSE IF resp.code = 0
               THEN Raise("PayPalAPIError", "TRANSIENT_ERROR", TRUE)
               ELSE IF resp.code \notin {200, 201}
               THEN Raise("PayPalAPIError", "PayPal create order failed",
                          resp.code >= 500)
               ELSE IF ~resp.json
               THEN Raise("JSONDecodeError", "resp.json()", FALSE)
               ELSE IF ~resp.has_id
               THEN Raise("KeyError", "id", FALSE)
               ELSE NoResult
       IN  IF failure # NoResult
           THEN /\ result' = [result EXCEPT ![p] = failure]
                /\ UNCHANGED << orders, obj >>
           ELSE /\ orders' = [orders EXCEPT ![o] = row]
                /\ obj' = [obj EXCEPT ![p] = row]
                /\ result' = [result EXCEPT ![p] = ReturnPair(o, status, resp.id)]
    /\ UNCHANGED << menu, cart, order_items, history, wsvars, args, loc, ncalls >>

\* The route returns its response; the request's session is closed.
respond(p) ==
    /\ pc[p] = "done"
    /\ pc' = [pc EXCEPT ![p] = "idle"]
    /\ args' = [args EXCEPT ![p] = NoArgs]
    /\ obj' = [obj EXCEPT ![p] = NoOrder]
    /\ loc' = [loc EXCEPT ![p] = NoLoc]
    /\ result' = [result EXCEPT ![p] = NoResult]
    /\ UNCHANGED << dbvars, wsvars, ncalls >>

---------------------------------------------------------------------------
(* Answers of the payment processor *)

TokenResponses ==
    {[code |-> 200, has_token |-> TRUE], [code |-> 200, has_token |-> FALSE],
     [code |-> 0, has_token |-> FALSE], [code |-> 401, has_token |-> FALSE],
     [code |-> 503, has_token |-> FALSE]}

\* "11.25", "11.250", "4.25" and a text that is no number
CaptureAmounts ==
    {[valid |-> TRUE, digits |-> 1125, exp |-> 2],
     [valid |-> TRUE, digits |-> 11250, exp |-> 3],
     [valid |-> TRUE, digits |-> 425, exp |-> 2],
     NoAmount}

\* Bodies that parse as a JSON object; an absent key is NULL / FALSE: an error
\* body, bodies without purchase units, without captures, and complete ones.
CaptureBodies ==
    {[NoResponse EXCEPT !.json = TRUE, !.status = s] :
        s \in {"COMPLETED", "DECLINED", NULL}}
    \cup
    {[NoResponse EXCEPT !.json = TRUE, !.status = s, !.has_units = TRUE,
                        !.custom_id = c] :
        s \in {"COMPLETED", "DECLINED"}, c \in {NULL, "1", "2"}}
    \cup
    {[NoResponse EXCEPT !.json = TRUE, !.status = s, !.has_units = TRUE,
                        !.custom_id = c, !.has_capture = TRUE, !.txn = t,
                        !.amount = a] :
        s \in {"COMPLETED", "DECLINED"}, c \in {NULL, "1", "2"},
        t \in CaptureIds, a \in CaptureAmounts}

\* Answers to the capture request: no answer (0), a server error, a body that
\* is no JSON, or a JSON body under a success or client-error code.
CaptureResponses ==
    {[NoResponse EXCEPT !.code = c] : c \in {0, 503, 200, 422}}
    \cup {[b EXCEPT !.code = c] : b \in CaptureBodies, c \in {200, 422}}
    \cup {[b EXCEPT !.code = 201] :
            b \in {x \in CaptureBodies : x.status = "COMPLETED" /\ x.has_capture}}

CreateResponses ==
    {[code |-> c, json |-> FALSE, has_id |-> FALSE, id |-> NULL, status |-> NULL] :
        c \in {0, 503, 422, 201}}
    \cup {[code |-> 201, json |-> TRUE, has_id |-> FALSE, id |-> NULL,
           status |-> NULL]}
    \cup {[code |-> c, json |-> TRUE, has_id |-> TRUE, id |-> i, status |-> s] :
            c \in {200, 201}, i \in SessionIds, s \in {"CREATED", "APPROVED", NULL}}

---------------------------------------------------------------------------
(* Status tracking: the websocket route, update_order_status step by step,  *)
(* and broadcast_status as a coroutine that is suspended in every push      *)

\* The query parameter `token`: missing, not resolving to a user (user 0), or
\* resolving to a user
Tokens ==
    {[given |-> FALSE, user |-> 0], [given |-> TRUE, user |-> 0]}
    \cup {[given |-> TRUE, user |-> u] : u \in Users}

\* Where update_order_status runs: an AnyIO worker thread (the sync routes),
\* the event loop's thread, or a thread with neither portal nor running loop
Contexts == {"worker_thread", "event_loop", "plain_thread"}

TrackStatuses == {"ACCEPTED", "IN_PREPARATION"}

\* OrderWebSocketManager.connect, after websocket.accept()
connect(reg, order_id, websocket) ==
    [k \in DOMAIN reg \cup {order_id} |->
        IF k \in DOMAIN reg
        THEN IF k = order_id THEN Append(reg[k], websocket) ELSE reg[k]
        ELSE << websocket >>]

\* A broadcast_status coroutine at its first line: `connections` is the list
\* object registered under the order, or a fresh empty list.  idx counts the
\* items the for loop has consumed; start and sent record, for the
\* properties, who was registered at the start and who was served.
NewTask(owner, event, reg) ==
    [owner |-> owner, order_id |-> event.orderId, status |-> event.status,
     idx |-> 0, dead |-> << >>,
     attached |-> event.orderId \in DOMAIN reg,
     start |-> IF event.orderId \in DOMAIN reg
               THEN {reg[event.orderId][i] : i \in 1 .. Len(reg[event.orderId])}
               ELSE {},
     sent |-> << >>]

\* `del self.active_connections[order_id]` drops the (empty) list object: a
\* coroutine iterating over it holds an empty list from then on, whatever is
\* registered under the order id later.
Detach(tasks, reg) ==
    [i \in 1 .. Len(tasks) |->
        IF tasks[i].attached /\ tasks[i].order_id \notin DOMAIN reg
        THEN [tasks[i] EXCEPT !.attached = FALSE]
        ELSE tasks[i]]

RemoveAt(s, i) == SubSeq(s, 1, i - 1) \o SubSeq(s, i + 1, Len(s))

\* The list iterator of `for websocket in connections` has a next item
HasNext(t) ==
    t.attached /\ t.idx < Len(active_connections[t.order_id])

\* One turn of the loop of broadcast_status, `await websocket.send_json(...)`,
\* for a coroutine that has a next item: the event is written to the channel,
\* or the push raises because the client is gone and the channel is collected
\* as dead.
push(t, reg, channels, deliv) ==
    LET websocket == reg[t.order_id][t.idx + 1]
        event == [orderId |-> t.order_id, status |-> t.status]
    IN  IF channels[websocket].st = "open"
        THEN [task |-> [t EXCEPT !.idx = @ + 1,
                                 !.sent = Append(@, websocket)],
              delivered |-> [deliv EXCEPT ![websocket] = Append(@, event)]]
        ELSE [task |-> [t EXCEPT !.idx = @ + 1,
                                 !.dead = Append(@, websocket)],
              delivered |-> deliv]

\* A coroutine runs from its start to its first suspension: it enters the
\* first push at once, if anyone is registered.
start(owner, event, reg, channels, deliv) ==
    LET t == NewTask(owner, event, reg)
    IN  IF t.attached
        THEN push(t, reg, channels, deliv)
        ELSE [task |-> t, delivered |-> deliv]

MayFollowAlways(order, user_id) == TRUE

\* websocket_order_status: the owner of the order, or a staff or admin user
MayFollow(order, user_id) ==
    order.user_id = user_id \/ user_id \in StaffUsers

\* websocket_order_status up to the receive loop: token, user, order,
\* ownership or staff role; close(1008) or manager.connect
ws_connect(ws, token, order_id) ==
    /\ chan[ws].st = "new"
    /\ IF \/ ~token.given
          \/ token.user \notin Users
          \/ order_id \notin OrderIds
       THEN /\ chan' = [chan EXCEPT ![ws].st = "rejected"]
            /\ active_connections' = active_connections
       ELSE IF ~MayFollow(orders[order_id], token.user)
       THEN /\ chan' = [chan EXCEPT ![ws].st = "rejected"]
            /\ active_connections' = active_connections
       ELSE /\ chan' = [chan EXCEPT ![ws] = [st |-> "open",
                                             order_id |-> order_id,
                                             user |-> token.user]]
            /\ active_connections' = connect(active_connections, order_id, ws)
    /\ UNCHANGED << dbvars, delivered, bcast, pc, args, obj, loc, result,
                    ncalls >>

\* The client goes away or the connection breaks: receive_text will raise in
\* the handler, and a push to the channel raises from now on.
ws_client_gone(ws) ==
    /\ chan[ws].st = "open"
    /\ chan' = [chan EXCEPT ![ws].st = "gone"]
    /\ UNCHANGED << dbvars, active_connections, delivered, bcast, pc, args,
                    obj, loc, result, ncalls >>

\* websocket_order_status: the except clauses run manager.disconnect
ws_disconnect(ws) ==
    /\ chan[ws].st = "gone"
    /\ LET reg == remove_connection(active_connections, chan[ws].order_id, ws)
       IN  /\ active_connections' = reg
           /\ bcast' = Detach(bcast, reg)
    /\ chan' = [chan EXCEPT ![ws] = [st |-> "closed", order_id |-> 0,
                                     user |-> 0]]
    /\ UNCHANGED << dbvars, delivered, pc, args, obj, loc, result, ncalls >>

\* update_order_status: order.status = new_status; the history row; db.commit()
commit_status(p) ==
    /\ pc[p] = "status_commit"
    /\ LET o == obj[p].id
           current == [obj[p] EXCEPT !.status = args[p].new_status]
       IN  /\ orders' = [orders EXCEPT ![o] = Flush(orders[o], obj[p], current)]
           /\ history' = Append(history,
                  HistoryRow(o, args[p].new_status, args[p].user))
           /\ obj' = [obj EXCEPT ![p] = current]
    /\ pc' = [pc EXCEPT ![p] = "status_refresh"]
    /\ UNCHANGED << menu, cart, order_items, wsvars, args, loc, result,
                    ncalls >>

\* update_order_status: db.refresh(order)
refresh_status(p) ==
    /\ pc[p] = "status_refresh"
    /\ obj' = [obj EXCEPT ![p] = orders[obj[p].id]]
    /\ pc' = [pc EXCEPT ![p] = "status_notify"]
    /\ UNCHANGED << dbvars, wsvars, args, loc, result, ncalls >>

\* update_order_status: the event of the refreshed order, and its submission.
\* from_thread.run starts the coroutine on the event loop and waits for it;
\* outside a worker thread it raises RuntimeError, and the handler of that
\* error creates a task on the running loop, or raises RuntimeError itself
\* when no loop is running.
notify_status(p, ctx) ==
    /\ pc[p] = "status_notify"
    /\ args' = [args EXCEPT ![p].ctx = ctx]
    /\ LET event == [orderId |-> obj[p].id, status |-> obj[p].status]
           owner == IF ctx = "worker_thread" THEN p ELSE NULL
           begun == start(owner, event, active_connections, chan, delivered)
       IN  IF ctx = "worker_thread"
           THEN /\ bcast' = Append(bcast, begun.task)
                /\ delivered' = begun.delivered
                /\ pc' = [pc EXCEPT ![p] = "status_wait"]
                /\ result' = result
           ELSE IF ctx = "event_loop"
           THEN /\ bcast' = Append(bcast, begun.task)
                /\ delivered' = begun.delivered
                /\ pc' = [pc EXCEPT ![p] = "done"]
                /\ result' = [result EXCEPT ![p] = ReturnOrder(obj[p])]
           ELSE /\ bcast' = bcast
                /\ delivered' = delivered
                /\ pc' = [pc EXCEPT ![p] = "done"]
                /\ result' = [result EXCEPT
                       ![p] = Raise("RuntimeError", "no running event loop",
                                    FALSE)]
    /\ UNCHANGED << dbvars, active_connections, chan, obj, loc, ncalls >>

\* broadcast_status: the coroutine resumes from a push and enters the next
broadcast_push(i) ==
    /\ HasNext(bcast[i])
    /\ LET pushed == push(bcast[i], active_connections, chan, delivered)
       IN  /\ bcast' = [bcast EXCEPT ![i] = pushed.task]
           /\ delivered' = pushed.delivered
    /\ UNCHANGED << dbvars, active_connections, chan, pc, args, obj, loc,
                    result, ncalls >>

\* broadcast_status: the coroutine resumes from its last push, or found nobody
\* registered; the loop is exhausted; the dead connections are removed;
\* the thread that waits in from_thread.run returns the order
broadcast_finish(i) ==
    /\ ~HasNext(bcast[i])
    /\ LET t == bcast[i]
           reg == remove_all(active_connections, t.order_id, t.dead)
       IN  /\ active_connections' = reg
           /\ bcast' = Detach(RemoveAt(bcast, i), reg)
           /\ IF t.owner \in Procs
              THEN /\ pc' = [pc EXCEPT ![t.owner] = "done"]
                   /\ result' = [result EXCEPT
                          ![t.owner] = ReturnOrder(obj[t.owner])]
              ELSE UNCHANGED << pc, result >>
    /\ UNCHANGED << dbvars, delivered, chan, args, obj, loc, ncalls >>

\* The registry's methods called directly, by any caller on the event loop,
\* with any order id and any websocket.  The call and its outcome are kept in
\* the first slot's args and result.
Returned == [NoResult EXCEPT !.kind = "return"]

RegistryCall(op, order_id, websocket) ==
    [NoArgs EXCEPT !.op = op, !.order_id = order_id, !.websocket = websocket]

acceptAlways(channel) == TRUE

\* `await websocket.accept()`: the websocket sends "websocket.accept" only
\* while its application state is CONNECTING; once accepted (or closed) the
\* call raises RuntimeError
accept(channel) == channel.st = "new"

\* OrderWebSocketManager.connect(order_id, websocket)
manager_connect(ws, order_id) ==
    /\ args' = [args EXCEPT ![MainProc] = RegistryCall("connect", order_id, ws)]
    /\ IF accept(chan[ws])
       THEN /\ chan' = [chan EXCEPT ![ws] = [st |-> "open",
                                             order_id |-> order_id,
                                             user |-> 0]]
            /\ active_connections' = connect(active_connections, order_id, ws)
            /\ result' = [result EXCEPT ![MainProc] = Returned]
       ELSE /\ chan' = chan
            /\ active_connections' = active_connections
            /\ result' = [result EXCEPT
                   ![MainProc] = Raise("RuntimeError", "websocket.accept",
                                       FALSE)]
    /\ UNCHANGED << dbvars, delivered, bcast, pc, obj, loc >>

\* OrderWebSocketManager.disconnect(order_id, websocket): both the lookup of
\* the order id and list.remove are guarded by a membership test, so the
\* call returns whatever its arguments
manager_disconnect(ws, order_id) ==
    /\ args' = [args EXCEPT
           ![MainProc] = RegistryCall("disconnect", order_id, ws)]
    /\ LET reg == remove_connection(active_connections, order_id, ws)
       IN  /\ active_connections' = reg
           /\ bcast' = Detach(bcast, reg)
    /\ result' = [result EXCEPT ![MainProc] = Returned]
    /\ UNCHANGED << dbvars, delivered, chan, pc, obj, loc >>

\* OrderWebSocketManager.broadcast_status(event) started as a task
manager_broadcast(order_id, status) ==
    /\ args' = [args EXCEPT
           ![MainProc] = [RegistryCall("broadcast_status", order_id, NULL)
                              EXCEPT !.new_status = status]]
    /\ LET event == [orderId |-> order_id, status |-> status]
           begun == start(NULL, event, active_connections, chan, delivered)
       IN  /\ bcast' = Append(bcast, begun.task)
           /\ delivered' = begun.delivered
    /\ result' = [result EXCEPT ![MainProc] = NoResult]
    /\ UNCHANGED << dbvars, active_connections, chan, pc, obj, loc >>

---------------------------------------------------------------------------
(* Specifications *)

Idle ==
    /\ pc = [p \in Procs |-> "idle"]
    /\ args = [p \in Procs |-> NoArgs]
    /\ obj = [p \in Procs |-> NoOrder]
    /\ loc = [p \in Procs |-> NoLoc]
    /\ result = [p \in Procs |-> NoResult]
    /\ ncalls = 0

EmptyTables ==
    /\ orders = << >>
    /\ order_items = << >>
    /\ history = << >>
    /\ active_connections = << >>
    /\ delivered = [ws \in Channels |-> << >>]
    /\ bcast = << >>
    /\ chan = [ws \in Channels |-> NewChannel]

\* The order lifecycle starts with a priced catalog and two customers who have
\* filled their carts: 2 x 3.50 + 1 x 4.25 = 11.25, and 1 x 4.25.
Init ==
    /\ menu = [m \in MenuIds |->
                 [present |-> TRUE, is_available |-> TRUE,
                  price |-> IF m = 1 THEN 350 ELSE 425]]
    /\ cart = [u \in Users |->
                 IF u = 1 THEN << [menu_item_id |-> 1, quantity |-> 2],
                                  [menu_item_id |-> 2, quantity |-> 1] >>
                 ELSE IF u = 2 THEN << [menu_item_id |-> 2, quantity |-> 1] >>
                 ELSE << >>]
    /\ EmptyTables
    /\ Idle

\* The steps of the order lifecycle taken by request slot p, with a budget of
\* n requests and the processor answering from toks, creates and resps
Lifecycle(p, n, toks, creates, resps) ==
    \/ \E u \in Customers : Budget(n) /\ checkout_read(p, u)
    \/ checkout_commit(p)
    \/ checkout_clear(p)
    \/ \E o \in 1 .. Len(orders) + 1, s \in OrderStatus, u \in StaffUsers :
           Budget(n) /\ status_load(p, o, s, u)
    \/ status_commit(p)
    \/ \E o \in 1 .. Len(orders) + 1, u \in Customers :
           Budget(n) /\ create_load(p, o, u)
    \/ \E tok \in toks, resp \in creates : create_post(p, tok, resp)
    \/ \E o \in 1 .. Len(orders) + 1, sid \in SessionIds, u \in Customers :
           Budget(n) /\ capture_load(p, o, sid, u)
    \/ \E tok \in toks, resp \in resps : capture_post(p, tok, resp)
    \/ cancel_pay(p)
    \/ cancel_status(p)
    \/ accept_pay(p)
    \/ accept_status(p)
    \/ respond(p)

\* Requests served one at a time
Next == Lifecycle(MainProc, MaxCalls, TokenResponses, CreateResponses,
                  CaptureResponses)

Spec == Init /\ [][Next]_vars

\* Requests served by two worker threads at once; the processor answers with a
\* success, a mismatching amount, a foreign custom id or a server error.
ConcTokens == {[code |-> 200, has_token |-> TRUE]}

ConcCreates ==
    {r \in CreateResponses : r.code = 201 /\ r.has_id /\ r.status = "CREATED"}

ConcCaptures ==
    {r \in CaptureResponses :
        \/ r.code = 503
        \/ /\ r.code = 200 /\ r.status = "COMPLETED" /\ r.has_capture
           /\ r.txn = "T1" /\ r.custom_id \in {"1", "2"}
           /\ r.amount \in {[valid |-> TRUE, digits |-> 1125, exp |-> 2],
                            [valid |-> TRUE, digits |-> 425, exp |-> 2]}}

NextConc ==
    \E p \in Procs :
        Lifecycle(p, MaxConcCalls, ConcTokens, ConcCreates, ConcCaptures)

SpecConc == Init /\ [][NextConc]_vars

\* The checkout study: any catalog, empty carts; customers fill their carts,
\* staff edit the catalog, and two worker threads serve checkouts.
InitCheckout ==
    /\ menu \in [MenuIds -> [present : {TRUE}, is_available : BOOLEAN,
                             price : Prices]]
    /\ cart = [u \in Users |-> << >>]
    /\ EmptyTables
    /\ Idle

NextCheckout ==
    \/ \E u \in Customers, m \in MenuIds, q \in 1 .. MaxQuantity :
           Budget(MaxCartCalls) /\ add_item_to_cart(u, m, q)
    \/ \E m \in MenuIds, price \in Prices, a \in BOOLEAN :
           Budget(MaxCartCalls) /\ update_menu_item(m, price, a)
    \/ \E m \in MenuIds : Budget(MaxCartCalls) /\ delete_menu_item(m)
    \/ \E p \in Procs :
           \/ \E u \in Customers : Budget(MaxCartCalls) /\ checkout_read(p, u)
           \/ checkout_commit(p)
           \/ checkout_clear(p)
           \/ respond(p)

SpecCheckout == InitCheckout /\ [][NextCheckout]_vars

\* The payment guards: the first menu item is free (MenuItem.price carries no
\* lower bound), so the second customer's order has a total of 0.
InitGuards ==
    /\ menu = [m \in MenuIds |->
                 [present |-> TRUE, is_available |-> TRUE,
                  price |-> IF m = 1 THEN 0 ELSE 425]]
    /\ cart = [u \in Users |->
                 IF u = 1 THEN << [menu_item_id |-> 1, quantity |-> 2],
                                  [menu_item_id |-> 2, quantity |-> 1] >>
                 ELSE IF u = 2 THEN << [menu_item_id |-> 1, quantity |-> 1] >>
                 ELSE << >>]
    /\ EmptyTables
    /\ Idle

NextGuards ==
    Lifecycle(MainProc, MaxGuardCalls, ConcTokens, ConcCreates, ConcCaptures)

SpecGuards == InitGuards /\ [][NextGuards]_vars

\* Status tracking starts after both customers have checked out: two PENDING
\* orders with their items and first history rows, the carts cleared.
InitTracking ==
    /\ menu = [m \in MenuIds |->
                 [present |-> TRUE, is_available |-> TRUE,
                  price |-> IF m = 1 THEN 350 ELSE 425]]
    /\ cart = [u \in Users |-> << >>]
    /\ orders = << NewOrder(1, 1, 1125), NewOrder(2, 2, 425) >>
    /\ order_items =
           << [order_id |-> 1, menu_item_id |-> 1, quantity |-> 2,
               unit_price |-> 350, line_total |-> 700],
              [order_id |-> 1, menu_item_id |-> 2, quantity |-> 1,
               unit_price |-> 425, line_total |-> 425],
              [order_id |-> 2, menu_item_id |-> 2, quantity |-> 1,
               unit_price |-> 425, line_total |-> 425] >>
    /\ history = << HistoryRow(1, "PENDING", 1), HistoryRow(2, "PENDING", 2) >>
    /\ active_connections = << >>
    /\ delivered = [ws \in Channels |-> << >>]
    /\ bcast = << >>
    /\ chan = [ws \in Channels |-> NewChannel]
    /\ Idle

\* The steps of the status tracking: websockets opened with a token of toks,
\* transitions of an order of os to one of statuses, served by the request
\* slots ps in the contexts ctxs with a budget of n transitions, and the
\* broadcast coroutines on the event loop
Tracking(ps, toks, ctxs, os, statuses, n) ==
    \/ \E ws \in Channels, token \in toks, o \in 1 .. Len(orders) + 1 :
           ws_connect(ws, token, o)
    \/ \E ws \in Channels : ws_client_gone(ws)
    \/ \E ws \in Channels : ws_disconnect(ws)
    \/ \E p \in ps, o \in os, s \in statuses, u \in StaffUsers :
           Budget(n) /\ status_load(p, o, s, u)
    \/ \E p \in ps : commit_status(p)
    \/ \E p \in ps : refresh_status(p)
    \/ \E p \in ps, ctx \in ctxs : notify_status(p, ctx)
    \/ \E i \in 1 .. Len(bcast) : broadcast_push(i)
    \/ \E i \in 1 .. Len(bcast) : broadcast_finish(i)
    \/ \E p \in ps : respond(p)

\* Transitions served one at a time
NextTracking ==
    Tracking({MainProc}, Tokens, Contexts, OrderIds, {"ACCEPTED"},
             MaxTrackCalls)

SpecTracking == InitTracking /\ [][NextTracking]_vars

\* Transitions of the first order served by two worker threads, followed by
\* staff websockets
NextTrackingConc ==
    Tracking(Procs, {[given |-> TRUE, user |-> u] : u \in StaffUsers},
             {"worker_thread"}, {1}, TrackStatuses, MaxTrackConcCalls)

SpecTrackingConc == InitTracking /\ [][NextTrackingConc]_vars

\* The order lifecycle, with customers who go on filling their carts and
\* staff who edit the catalog between the steps of a request
NextFrame ==
    \/ Lifecycle(MainProc, MaxFrameCalls, ConcTokens, ConcCreates, ConcCaptures)
    \/ \E u \in Customers, m \in MenuIds, q \in 1 .. MaxQuantity :
           Budget(MaxFrameCalls) /\ add_item_to_cart(u, m, q)
    \/ \E m \in MenuIds, price \in Prices, a \in BOOLEAN :
           Budget(MaxFrameCalls) /\ update_menu_item(m, price, a)

SpecFrame == Init /\ [][NextFrame]_vars

\* Two placed orders, each followed by a websocket of its owner; the first
\* customer has put an item in the cart again
InitCross ==
    /\ menu = [m \in MenuIds |->
                 [present |-> TRUE, is_available |-> TRUE,
                  price |-> IF m = 1 THEN 350 ELSE 425]]
    /\ cart = [u \in Users |->
                 IF u = 1 THEN << [menu_item_id |-> 2, quantity |-> 1] >>
                 ELSE << >>]
    /\ orders = << NewOrder(1, 1, 1125), NewOrder(2, 2, 425) >>
    /\ order_items =
           << [order_id |-> 1, menu_item_id |-> 1, quantity |-> 2,
               unit_price |-> 350, line_total |-> 700],
              [order_id |-> 1, menu_item_id |-> 2, quantity |-> 1,
               unit_price |-> 425, line_total |-> 425],
              [order_id |-> 2, menu_item_id |-> 2, quantity |-> 1,
               unit_price |-> 425, line_total |-> 425] >>
    /\ history = << HistoryRow(1, "PENDING", 1), HistoryRow(2, "PENDING", 2) >>
    /\ active_connections = << << "c1" >>, << "c2" >> >>
    /\ delivered = [ws \in Channels |-> << >>]
    /\ bcast = << >>
    /\ chan = [ws \in Channels |->
                 IF ws = "c1" THEN [st |-> "open", order_id |-> 1, user |-> 1]
                 ELSE [st |-> "open", order_id |-> 2, user |-> 2]]
    /\ Idle

\* The lifecycle requests of both customers and the staff over these orders
NextCross ==
    Lifecycle(MainProc, MaxCrossCalls, ConcTokens, ConcCreates, ConcCaptures)

SpecCross == InitCross /\ [][NextCross]_vars

\* The registry on its own: any sequence of connect, disconnect and
\* broadcast_status on two websockets and two order ids, clients that go
\* away, and the broadcast coroutines in between
NextRegistry ==
    \/ \E ws \in Channels, o \in OrderIds :
           Budget(MaxRegistryCalls) /\ manager_connect(ws, o)
    \/ \E ws \in Channels, o \in OrderIds :
           Budget(MaxRegistryCalls) /\ manager_disconnect(ws, o)
    \/ \E o \in OrderIds :
           Budget(MaxRegistryCalls) /\ manager_broadcast(o, "ACCEPTED")
    \/ \E ws \in Channels : ws_client_gone(ws)
    \/ \E i \in 1 .. Len(bcast) : broadcast_push(i)
    \/ \E i \in 1 .. Len(bcast) : broadcast_finish(i)

SpecRegistry == InitTracking /\ [][NextRegistry]_vars

---------------------------------------------------------------------------
(* Properties of the payment capture and of the transitions *)

CaptureCall(p) == args[p].op = "capture_paypal_order"

\* The capture request of slot p was sent and answered
Answered(p) == CaptureCall(p) /\ loc[p].resp.code # -1

\* The decimal literal denotes the amount of `cents` cents
SameMoney(amount, cents) ==
    amount.valid /\ amount.digits * 100 = cents * Pow10(amount.exp)

HistoryIn(h, o) == SelectSeq(h, LAMBDA r : r.order_id = o)

\* C1: a capture whose answer carries a captured amount different from the
\* order's total never takes the accepting path and ends with the order
\* CANCELED and an error raised to the caller, whatever the status string.
C1_AmountMismatchCancels ==
    \A p \in Procs :
        ( /\ Answered(p)
          /\ loc[p].resp.has_capture
          /\ ~SameMoney(loc[p].resp.amount,
                        orders[args[p].order_id].total_amount) )
        => /\ pc[p] \notin {"accept_pay", "accept_status"}
           /\ pc[p] = "done" =>
                /\ orders[args[p].order_id].status = "CANCELED"
                /\ result[p].kind = "raise"

\* A completed capture of order 1 with the right custom id and a wrong amount
\* has ended: the order is CANCELED with payment status AMOUNT_MISMATCH.
C1_Witness ==
    \E p \in Procs :
        /\ Answered(p) /\ pc[p] = "done" /\ args[p].order_id = 1
        /\ loc[p].resp.code = 200 /\ loc[p].resp.status = "COMPLETED"
        /\ loc[p].resp.custom_id = "1" /\ loc[p].resp.has_capture
        /\ loc[p].resp.amount = [valid |-> TRUE, digits |-> 425, exp |-> 2]
        /\ orders[1].total_amount = 1125
        /\ orders[1].status = "CANCELED"
        /\ orders[1].payment_status = "AMOUNT_MISMATCH"
        /\ result[p].message = "Captured amount mismatch"

\* C2: a capture takes the accepting path (stores the transaction id, moves the
\* order to ACCEPTED, returns a result) only if the answer is a success with
\* status COMPLETED, the order's total as amount, and the order's id as custom
\* id; an absent identifier is no verification.
C2_AcceptedOnlyWhenVerified ==
    \A p \in Procs :
        Answered(p) =>
            LET o == args[p].order_id
                r == loc[p].resp
                verified == /\ r.status = "COMPLETED"
                            /\ r.has_capture
                            /\ SameMoney(r.amount, orders[o].total_amount)
                            /\ r.custom_id = IdStr(o)
            IN  ~verified =>
                    /\ pc[p] \notin {"accept_pay", "accept_status"}
                    /\ pc[p] = "done" => result[p].kind = "raise"

Edges ==
    { << "PENDING", "ACCEPTED" >>, << "ACCEPTED", "IN_PREPARATION" >>,
      << "IN_PREPARATION", "READY_FOR_PICKUP" >>,
      << "READY_FOR_PICKUP", "COMPLETED" >>,
      << "PENDING", "CANCELED" >>, << "ACCEPTED", "CANCELED" >> }

Terminal == {"COMPLETED", "CANCELED"}

\* C3: every status change of an order follows an edge of the state machine,
\* and an order in COMPLETED or CANCELED gets no further history row.
C3_TransitionsFollowEdges ==
    [][\A o \in OrderIds :
          /\ orders'[o].status # orders[o].status =>
                 << orders[o].status, orders'[o].status >> \in Edges
          /\ orders[o].status \in Terminal =>
                 HistoryIn(history', o) = HistoryIn(history, o)]_vars

\* C4: every transition appends exactly one history row, carrying the new
\* status and the acting user, and leaves the earlier rows as they were: the
\* PATCH handler in its committing step, the capture in its cancelling or
\* accepting step.  Loading the order appends nothing, and a call on a
\* missing order raises OrderNotFoundError and appends nothing.
C4_TransitionAppendsOneRow ==
    [][\A p \in Procs :
          /\ (pc[p] = "status_commit" /\ pc'[p] # pc[p]) =>
                 /\ history' = Append(history,
                        [order_id |-> args[p].order_id,
                         status |-> args[p].new_status,
                         changed_by_user_id |-> args[p].user])
                 /\ pc'[p] = "done" /\ result'[p].kind = "return"
          /\ (pc[p] = "cancel_status" /\ pc'[p] # pc[p]) =>
                 history' = Append(history,
                     [order_id |-> args[p].order_id, status |-> "CANCELED",
                      changed_by_user_id |-> orders[args[p].order_id].user_id])
          /\ (pc[p] = "accept_status" /\ pc'[p] # pc[p]) =>
                 history' = Append(history,
                     [order_id |-> args[p].order_id, status |-> "ACCEPTED",
                      changed_by_user_id |-> orders[args[p].order_id].user_id])
          /\ (pc[p] = "idle" /\ args'[p].op = "update_order_status") =>
                 /\ history' = history
                 /\ args'[p].order_id \notin OrderIds =>
                        /\ pc'[p] = "done"
                        /\ result'[p].exc = "OrderNotFoundError"
                 /\ args'[p].order_id \in OrderIds => pc'[p] = "status_commit"
      ]_vars

\* A second transition of order 1 has returned: its history holds the initial
\* row and one row per transition.
C4_Witness ==
    \E p \in Procs :
        /\ pc[p] = "done" /\ args[p].op = "update_order_status"
        /\ result[p].kind = "return" /\ args[p].order_id = 1
        /\ Len(HistoryOf(1)) = 3
        /\ HistoryOf(1)[3] = [order_id |-> 1, status |-> args[p].new_status,
                              changed_by_user_id |-> args[p].user]

\* The answer to a capture is one of the failures of the capture contract
FailedCapture(r, o) ==
    /\ r.code \notin {0, 503}
    /\ \/ r.code \notin {200, 201}
       \/ ~r.json
       \/ r.status # "COMPLETED"
       \/ ~r.has_units
       \/ ~r.has_capture
       \/ ~SameMoney(r.amount, orders[o].total_amount)
       \/ (r.custom_id # NULL /\ r.custom_id # IdStr(o))

\* C9: after a capture answered with a 4xx code, a status other than
\* COMPLETED, a foreign custom id, a malformed or unparseable body or a wrong
\* amount, the order carries a failure payment status and is CANCELED, and the
\* caller gets a non-retryable PayPalAPIError.
C9_FailedCaptureCancels ==
    \A p \in Procs :
        ( /\ Answered(p) /\ pc[p] = "done"
          /\ FailedCapture(loc[p].resp, args[p].order_id) )
        => /\ orders[args[p].order_id].status = "CANCELED"
           /\ orders[args[p].order_id].payment_status \notin {NULL, "COMPLETED"}
           /\ result[p].kind = "raise"
           /\ result[p].exc = "PayPalAPIError"
           /\ ~result[p].retryable

\* C10: at most one capture call per order records a capture, that is, appends
\* an ACCEPTED row on behalf of the order's user.
C10_CaptureAtMostOnce ==
    \A o \in OrderIds :
        Cardinality({i \in 1 .. Len(history) :
                        /\ history[i].order_id = o
                        /\ history[i].status = "ACCEPTED"
                        /\ history[i].changed_by_user_id = orders[o].user_id}) <= 1

---------------------------------------------------------------------------
(* Properties of the ledger and of the checkout *)

\* C5: in every committed state an order's status is the status of its latest
\* history row, and its first history row is the PENDING row of its user.
C5_StatusIsLastHistoryRow ==
    \A o \in OrderIds :
        LET h == HistoryOf(o)
        IN  /\ h # << >>
            /\ h[1] = [order_id |-> o, status |-> "PENDING",
                       changed_by_user_id |-> orders[o].user_id]
            /\ h[Len(h)].status = orders[o].status

RECURSIVE SumLineTotals(_)
SumLineTotals(items) ==
    IF items = << >> THEN 0
    ELSE Head(items).line_total + SumLineTotals(Tail(items))

ItemsIn(rows, o) == SelectSeq(rows, LAMBDA r : r.order_id = o)

\* C6: a checkout that passes validation builds one item per cart line, with
\* the line's menu item and quantity, the catalog price of that moment as
\* unit price and unit price x quantity as line total; its commit adds one
\* PENDING order of the user holding exactly these items, and every order's
\* total is the sum of its line totals.
C6_OrderPricedFromCart ==
    [][\A p \in Procs :
          /\ (pc[p] = "idle" /\ pc'[p] = "checkout_commit") =>
                 LET lines == cart[args'[p].user]
                     items == loc'[p].order_items
                 IN  /\ lines # << >>
                     /\ Len(items) = Len(lines)
                     /\ \A i \in 1 .. Len(lines) :
                            /\ items[i].menu_item_id = lines[i].menu_item_id
                            /\ items[i].quantity = lines[i].quantity
                            /\ items[i].unit_price =
                                   menu[lines[i].menu_item_id].price
                            /\ items[i].line_total =
                                   items[i].unit_price * lines[i].quantity
          /\ (pc[p] = "checkout_commit" /\ pc'[p] # pc[p]) =>
                 LET id == Len(orders) + 1
                     built == loc[p].order_items
                 IN  /\ Len(orders') = id
                     /\ orders'[id].status = "PENDING"
                     /\ orders'[id].user_id = args[p].user
                     /\ ItemsIn(order_items', id) =
                            [i \in 1 .. Len(built) |->
                                [built[i] EXCEPT !.order_id = id]]
                     /\ \A o \in OrderIds :
                            /\ orders'[o] = orders[o]
                            /\ ItemsIn(order_items', o) = ItemsIn(order_items, o)
          /\ \A o \in 1 .. Len(orders') :
                 orders'[o].total_amount =
                     SumLineTotals(ItemsIn(order_items', o))
      ]_vars

\* The order of the cart {item 1: 2 @ 3.50, item 2: 1 @ 4.25}: total 11.25
C6_Witness ==
    /\ Len(orders) >= 1
    /\ orders[1].status = "PENDING"
    /\ orders[1].total_amount = 1125
    /\ ItemsOf(1) =
           << [order_id |-> 1, menu_item_id |-> 1, quantity |-> 2,
               unit_price |-> 350, line_total |-> 700],
              [order_id |-> 1, menu_item_id |-> 2, quantity |-> 1,
               unit_price |-> 425, line_total |-> 425] >>

\* C7: a checkout over an empty cart raises EmptyCartError, a checkout over a
\* cart with a line whose menu item is missing or unavailable, at whatever
\* position, raises ItemUnavailableError; either way the call ends there and
\* the orders, items, history and cart are as before.
C7_RejectedCheckoutPersistsNothing ==
    [][\A p \in Procs :
          (pc[p] = "idle" /\ args'[p].op = "checkout") =>
              LET lines == cart[args'[p].user]
                  bad == \E i \in 1 .. Len(lines) :
                             \/ ~menu[lines[i].menu_item_id].present
                             \/ ~menu[lines[i].menu_item_id].is_available
              IN  /\ lines = << >> =>
                         /\ pc'[p] = "done"
                         /\ result'[p].exc = "EmptyCartError"
                  /\ (lines # << >> /\ bad) =>
                         /\ pc'[p] = "done"
                         /\ result'[p].exc = "ItemUnavailableError"
                  /\ (lines = << >> \/ bad) =>
                         UNCHANGED << orders, order_items, history, cart >>
                  /\ (lines # << >> /\ ~bad) => pc'[p] = "checkout_commit"
      ]_vars

\* A checkout was rejected for the second line of a two-line cart whose first
\* line is orderable; nothing was persisted and the cart is still there.
C7_Witness ==
    \E p \in Procs :
        /\ pc[p] = "done" /\ args[p].op = "checkout"
        /\ result[p].exc = "ItemUnavailableError"
        /\ Len(cart[args[p].user]) = 2
        /\ menu[cart[args[p].user][1].menu_item_id].is_available
        /\ menu[cart[args[p].user][1].menu_item_id].present
        /\ ~menu[cart[args[p].user][2].menu_item_id].is_available
        /\ orders = << >> /\ order_items = << >> /\ history = << >>

\* C8: no state has the order of a checkout committed while the cart lines it
\* was built from are still in the user's cart.
C8_OrderAndCartClearedTogether ==
    \A p \in Procs :
        (args[p].op = "checkout" /\ pc[p] = "checkout_clear") =>
            \A i \in 1 .. Len(loc[p].cart_items) :
                ~InSeq(cart[args[p].user], loc[p].cart_items[i])

---------------------------------------------------------------------------
(* Properties of the payment adapter's error paths and of its happy path *)

PaymentCall(p) == args[p].op \in {"create_paypal_order", "capture_paypal_order"}

\* C11: a createPaymentSession or captureSession call that ended with a
\* non-retryable PayPalAPIError leaves the order CANCELED.
C11_NonRetryableCancels ==
    \A p \in Procs :
        ( /\ PaymentCall(p) /\ pc[p] = "done"
          /\ result[p].exc = "PayPalAPIError" /\ ~result[p].retryable )
        => orders[args[p].order_id].status = "CANCELED"

\* C12: a payment call ends with a retryable PayPalAPIError only in the step
\* that talks to the processor, directly after the loading step, and neither
\* step writes to the database: the order's status, payment columns and
\* history are as before the call.  A capture request that gets no answer or
\* a 5xx answer ends the call with a retryable PayPalAPIError.
C12_RetryableLeavesOrder ==
    [][\A p \in Procs :
          /\ (pc[p] = "idle" /\ PaymentCall(p)') => UNCHANGED dbvars
          /\ ( /\ pc[p] # "done" /\ pc'[p] = "done" /\ PaymentCall(p)
               /\ result'[p].exc = "PayPalAPIError" /\ result'[p].retryable )
             => /\ pc[p] \in {"create_post", "capture_post"}
                /\ UNCHANGED dbvars
          /\ ( /\ pc[p] = "capture_post" /\ pc'[p] # pc[p]
               /\ loc'[p].resp.code \in {0, 503} )
             => /\ pc'[p] = "done"
                /\ result'[p].exc = "PayPalAPIError" /\ result'[p].retryable
      ]_vars

\* A capture of order 1, whose session SA is stored, was answered 503: the
\* call ended with a retryable error and the order is as the session creation
\* left it.
C12_Witness ==
    \E p \in Procs :
        /\ pc[p] = "done" /\ CaptureCall(p) /\ args[p].order_id = 1
        /\ loc[p].resp.code = 503
        /\ result[p].exc = "PayPalAPIError" /\ result[p].retryable
        /\ orders[1].status = "PENDING" /\ orders[1].paypal_order_id = "SA"
        /\ orders[1].payment_status = "CREATED"
        /\ orders[1].paypal_capture_id = NULL
        /\ Len(HistoryOf(1)) = 1

\* The answer verifies the capture of order o: success code, status COMPLETED,
\* the order's id as custom id, the order's total as amount
VerifiedCapture(r, o) ==
    /\ r.code \in {200, 201} /\ r.json /\ r.status = "COMPLETED"
    /\ r.has_units /\ r.custom_id = IdStr(o) /\ r.has_capture
    /\ SameMoney(r.amount, orders[o].total_amount)

\* C13: for a PENDING order with positive total and its owner, the session
\* creation reaches the processor and, when it succeeds, stores provider,
\* session id and provider status and leaves status and history alone; a
\* capture answered with a verified response takes the accepting path, stores
\* the processor's capture id, and moves the PENDING order to ACCEPTED with
\* exactly one new history row, ACCEPTED on behalf of the owner.
C13_CreateThenCaptureAccepts ==
    [][\A p \in Procs :
          LET o == args'[p].order_id
          IN
          /\ ( /\ pc[p] = "idle" /\ args'[p].op = "create_paypal_order"
               /\ o \in OrderIds /\ orders[o].user_id = args'[p].user
               /\ orders[o].status = "PENDING" /\ orders[o].total_amount > 0 )
             => pc'[p] = "create_post"
          /\ (pc[p] = "create_post" /\ result'[p].kind = "return")
             => /\ result'[p].id \in SessionIds
                /\ orders' = [orders EXCEPT
                       ![o] = [@ EXCEPT !.payment_provider = "PAYPAL",
                                        !.payment_status = result'[p].status,
                                        !.paypal_order_id = result'[p].id]]
                /\ orders'[o].status = "PENDING"
                /\ history' = history
          /\ ( /\ pc[p] = "capture_post" /\ pc'[p] # pc[p]
               /\ VerifiedCapture(loc'[p].resp, o) )
             => pc'[p] = "accept_pay"
          /\ (pc[p] = "accept_pay" /\ pc'[p] # pc[p])
             => /\ orders'[o].paypal_capture_id = loc[p].resp.txn
                /\ orders'[o].paypal_order_id = args[p].paypal_order_id
                /\ orders'[o].payment_status = "COMPLETED"
                /\ orders'[o].status = orders[o].status
                /\ history' = history
          /\ ( /\ pc[p] = "accept_status" /\ pc'[p] # pc[p]
               /\ orders[o].status = "PENDING" )
             => /\ orders'[o].status = "ACCEPTED"
                /\ orders'[o].paypal_capture_id = loc[p].resp.txn
                /\ history' = Append(history,
                       [order_id |-> o, status |-> "ACCEPTED",
                        changed_by_user_id |-> orders[o].user_id])
                /\ result'[p].kind = "return"
                /\ result'[p].status = "COMPLETED"
                /\ result'[p].id = loc[p].resp.txn
      ]_vars

\* Order 1 after createPaymentSession (session SA) and a verified capture T1
C13_Witness ==
    \E p \in Procs :
        /\ pc[p] = "done" /\ CaptureCall(p) /\ result[p].kind = "return"
        /\ args[p].order_id = 1 /\ args[p].paypal_order_id = "SA"
        /\ orders[1].status = "ACCEPTED"
        /\ orders[1].payment_provider = "PAYPAL"
        /\ orders[1].paypal_order_id = "SA"
        /\ orders[1].paypal_capture_id = "T1"
        /\ HistoryOf(1) =
               << [order_id |-> 1, status |-> "PENDING",
                   changed_by_user_id |-> 1],
                  [order_id |-> 1, status |-> "ACCEPTED",
                   changed_by_user_id |-> 1] >>

\* C20: the loading step of createPaymentSession rejects, with
\* OrderPaymentError, a caller who is not the owner, an order that is not
\* PENDING and a total that is not positive; the loading step of
\* captureSession rejects a caller who is not the owner and a supplied session
\* id different from the stored one.  The rejected call ends in that step,
\* before any processor request, with the database unchanged; and an
\* OrderPaymentError is raised by no other step.
C20_BusinessRulesRejectFirst ==
    [][\A p \in Procs :
          LET o == args'[p].order_id
              rejected == /\ pc'[p] = "done"
                          /\ result'[p].exc = "OrderPaymentError"
                          /\ UNCHANGED << dbvars, wsvars >>
          IN
          /\ ( /\ pc[p] = "idle" /\ args'[p].op = "create_paypal_order"
               /\ o \in OrderIds
               /\ \/ orders[o].user_id # args'[p].user
                  \/ orders[o].status # "PENDING"
                  \/ orders[o].total_amount <= 0 )
             => rejected
          /\ ( /\ pc[p] = "idle" /\ args'[p].op = "capture_paypal_order"
               /\ o \in OrderIds
               /\ \/ orders[o].user_id # args'[p].user
                  \/ /\ orders[o].paypal_order_id \notin {NULL, ""}
                     /\ orders[o].paypal_order_id # args'[p].paypal_order_id )
             => rejected
          /\ ( /\ pc'[p] = "done" /\ pc[p] # "done"
               /\ result'[p].exc = "OrderPaymentError" )
             => pc[p] = "idle"
      ]_vars

\* createPaymentSession was rejected for the PENDING order of a free item
C20_Witness ==
    \E p \in Procs :
        /\ pc[p] = "done" /\ args[p].op = "create_paypal_order"
        /\ result[p].exc = "OrderPaymentError"
        /\ result[p].message = "Order total must be greater than zero"
        /\ orders[args[p].order_id].user_id = args[p].user
        /\ orders[args[p].order_id].status = "PENDING"
        /\ orders[args[p].order_id].total_amount = 0
        /\ orders[args[p].order_id].payment_provider = NULL

---------------------------------------------------------------------------
(* Properties of concurrent requests *)

\* C14: the committing step of a transition appends its history row after the
\* rows committed before it and leaves the order with the status it wrote, so
\* that of two concurrent transitions the one that commits last determines
\* the final status and the last history row.
C14_LastCommitWins ==
    [][\A p \in Procs :
          (pc[p] = "status_commit" /\ pc'[p] # pc[p]) =>
              /\ history' = Append(history,
                     [order_id |-> args[p].order_id,
                      status |-> args[p].new_status,
                      changed_by_user_id |-> args[p].user])
              /\ orders'[args[p].order_id].status = args[p].new_status
      ]_vars

\* C15: no two checkouts of one user have both committed an order built from
\* the same cart lines (both past their commit, neither having cleared the
\* cart yet).
C15_CartConsumedOnce ==
    \A p, q \in Procs :
        ( /\ p # q
          /\ pc[p] = "checkout_clear" /\ pc[q] = "checkout_clear"
          /\ args[p].user = args[q].user )
        => loc[p].cart_items # loc[q].cart_items

---------------------------------------------------------------------------
(* Properties of the status tracking *)

\* The websocket is in the list registered under the order
Registered(reg, order_id, websocket) ==
    order_id \in DOMAIN reg /\ InSeq(reg[order_id], websocket)

\* The step is the end of the broadcast_status coroutine bcast[i]
Finishes(i) ==
    /\ Len(bcast') = Len(bcast) - 1
    /\ ~HasNext(bcast[i])
    /\ bcast' = Detach(RemoveAt(bcast, i), active_connections')

Occurrences(s, x) == Cardinality({k \in 1 .. Len(s) : s[k] = x})

\* C16: a broadcast that ends has delivered its event to every websocket that
\* was subscribed to the order when the broadcast started and is still
\* subscribed and open when it ends; and an event is only ever delivered to a
\* websocket that is subscribed to the event's order at that moment, so never
\* to one that was unsubscribed before.
C16_SubscribedReceives ==
    [][/\ \A i \in 1 .. Len(bcast) :
              Finishes(i) =>
                  \A ws \in bcast[i].start :
                      ( /\ chan[ws].st = "open"
                        /\ Registered(active_connections, bcast[i].order_id, ws) )
                      => InSeq(bcast[i].sent, ws)
       /\ \A ws \in Channels :
              delivered'[ws] # delivered[ws] =>
                  /\ Len(delivered'[ws]) = Len(delivered[ws]) + 1
                  /\ Registered(active_connections,
                         delivered'[ws][Len(delivered'[ws])].orderId, ws)
      ]_vars

\* C17: when a broadcast in which a push raised ends, every websocket whose
\* push raised is out of the registry, and every websocket that was
\* subscribed to the order at the start and is still subscribed and open has
\* received the event exactly once.
C17_DeadRemovedOthersServed ==
    [][\A i \in 1 .. Len(bcast) :
          (Finishes(i) /\ bcast[i].dead # << >>) =>
              /\ \A k \in 1 .. Len(bcast[i].dead) :
                     ~Registered(active_connections', bcast[i].order_id,
                                 bcast[i].dead[k])
              /\ \A ws \in bcast[i].start :
                     ( /\ chan[ws].st = "open"
                       /\ Registered(active_connections, bcast[i].order_id, ws) )
                     => Occurrences(bcast[i].sent, ws) = 1
      ]_vars

\* The history rows of the order, as their positions in commit order
RowsOf(order_id, status) ==
    {k \in 1 .. Len(history) :
        history[k].order_id = order_id /\ history[k].status = status}

\* C18: a websocket never holds two events of one order in an order that
\* contradicts the commits: if the event with status y came after the event
\* with status x, then not every transition to y was committed before every
\* transition to x.
C18_EventsInCommitOrder ==
    \A ws \in Channels :
        \A i, j \in 1 .. Len(delivered[ws]) :
            LET x == delivered[ws][i]
                y == delivered[ws][j]
            IN  ( /\ i < j
                  /\ x.orderId = y.orderId
                  /\ x.status # y.status
                  /\ RowsOf(x.orderId, x.status) # {}
                  /\ RowsOf(y.orderId, y.status) # {} )
                => ~ \A a \in RowsOf(y.orderId, y.status),
                        b \in RowsOf(x.orderId, x.status) : a < b

\* C19: a call of update_order_status on an existing order that has ended
\* has returned the order, whatever the context it submitted the broadcast
\* from, and the status and history row it committed are in the database.
C19_BroadcastNeverPropagates ==
    \A p \in Procs :
        ( /\ pc[p] = "done"
          /\ args[p].op = "update_order_status"
          /\ args[p].order_id \in OrderIds )
        => /\ result[p].kind = "return"
           /\ \E k \in 1 .. Len(history) :
                  /\ history[k].order_id = args[p].order_id
                  /\ history[k].status = args[p].new_status

\* C21: every websocket in the registry under an order was opened for that
\* order, which exists, with a token of a user who owns the order or is
\* staff; a websocket whose connection attempt was closed is under no order
\* and has received no event.
C21_OnlyAuthorizedChannels ==
    \A ws \in Channels :
        /\ \A o \in DOMAIN active_connections :
               InSeq(active_connections[o], ws) =>
                   /\ o \in OrderIds
                   /\ chan[ws].st \in {"open", "gone"}
                   /\ chan[ws].order_id = o
                   /\ chan[ws].user \in Users
                   /\ \/ orders[o].user_id = chan[ws].user
                      \/ chan[ws].user \in StaffUsers
        /\ chan[ws].st = "rejected" =>
               /\ \A o \in DOMAIN active_connections :
                      ~InSeq(active_connections[o], ws)
               /\ delivered[ws] = << >>

\* One websocket was turned away, the other follows its owner's order and has
\* received an event
C21_Witness ==
    \E ws, other \in Channels :
        /\ chan[other].st = "rejected"
        /\ chan[ws].st = "open"
        /\ chan[ws].user \in Customers
        /\ Registered(active_connections, chan[ws].order_id, ws)
        /\ delivered[ws] # << >>

---------------------------------------------------------------------------
(* Properties of the routes *)

\* The HTTP status a route answers with: the except clauses of the route
\* turn some exceptions of the service into an HTTPException or a body; any
\* other exception reaches the application's handler for Exception.
StatusCode(call, r) ==
    IF r.kind = "return" THEN 200
    ELSE IF call.op = "update_order_status"
    THEN IF r.exc = "OrderNotFoundError" THEN 404 ELSE 500
    ELSE IF call.op = "create_paypal_order"
    THEN IF r.exc = "OrderPaymentError" THEN 400
         ELSE IF r.exc = "PayPalAPIError" THEN 502
         ELSE 500
    ELSE IF call.op = "capture_paypal_order"
    THEN IF r.exc = "PayPalAPIError" THEN 200
         ELSE IF r.exc = "OrderPaymentError" THEN 400
         ELSE 500
    ELSE IF r.exc \in {"EmptyCartError", "ItemUnavailableError"} THEN 400
    ELSE 500

\* C22: a status update, a payment creation or a capture addressed to an
\* order id that does not exist ends with a 4xx answer, without a request to
\* the payment processor.
C22_MissingOrderIs4xx ==
    \A p \in Procs :
        ( /\ pc[p] = "done"
          /\ args[p].op \in {"update_order_status", "create_paypal_order",
                             "capture_paypal_order"}
          /\ args[p].order_id \notin OrderIds )
        => /\ StatusCode(args[p], result[p]) \in 400 .. 499
           /\ loc[p].resp = NoResponse

---------------------------------------------------------------------------
(* Further properties of the status tracking *)

\* C23: the event that a transition submits for broadcast carries the id of
\* its order and the status that this transition set.
C23_EventCarriesOwnStatus ==
    [][\A p \in Procs :
          ( /\ pc[p] = "status_notify"
            /\ pc'[p] # pc[p]
            /\ Len(bcast') = Len(bcast) + 1 )
          => /\ bcast'[Len(bcast')].order_id = args[p].order_id
             /\ bcast'[Len(bcast')].status = args[p].new_status
      ]_vars

\* C24: the registry and the broadcasts stay consistent under websockets
\* that come and go: after every step an open websocket is in the list of its
\* order exactly once and a websocket that was turned away or whose handler
\* has ended is in no list, and a broadcast that ends has pushed the event
\* exactly once to every websocket that was registered and open from its
\* start to its end.
C24_RegistrySynchronized ==
    [][/\ \A ws \in Channels :
              /\ chan'[ws].st = "open" =>
                     /\ chan'[ws].order_id \in DOMAIN active_connections'
                     /\ Occurrences(active_connections'[chan'[ws].order_id],
                                    ws) = 1
              /\ chan'[ws].st \in {"new", "rejected", "closed"} =>
                     \A o \in DOMAIN active_connections' :
                         ~InSeq(active_connections'[o], ws)
       /\ \A i \in 1 .. Len(bcast) :
              Finishes(i) =>
                  \A ws \in bcast[i].start :
                      ( /\ chan'[ws].st = "open"
                        /\ Registered(active_connections', bcast[i].order_id,
                                      ws) )
                      => Occurrences(bcast[i].sent, ws) = 1
      ]_vars

---------------------------------------------------------------------------
(* Further properties of the payment flow *)

\* C25: within a capture call the step that appends a history row (and
\* broadcasts its event) is the last step of the call, so that one call
\* appends at most one row and emits at most one event.
C25_CaptureAppendsOnce ==
    [][\A p \in Procs :
          ( /\ CaptureCall(p)
            /\ pc[p] \in {"cancel_status", "accept_status"}
            /\ pc'[p] # pc[p] )
          => /\ Len(history') = Len(history) + 1
             /\ pc'[p] = "done"
      ]_vars

---------------------------------------------------------------------------
(* Further properties of the checkout *)

\* C26: every cart line that the clearing step of a checkout deletes is in
\* the items of the order this checkout created, with the quantity it has in
\* the cart at that moment.
C26_ClearsOnlyCopiedLines ==
    [][\A p \in Procs :
          (pc[p] = "checkout_clear" /\ pc'[p] # pc[p]) =>
              \A i \in 1 .. Len(cart[args[p].user]) :
                  LET line == cart[args[p].user][i]
                  IN  InSeq(cart'[args[p].user], line)
                      \/ \E k \in 1 .. Len(ItemsOf(obj[p].id)) :
                             /\ ItemsOf(obj[p].id)[k].menu_item_id
                                    = line.menu_item_id
                             /\ ItemsOf(obj[p].id)[k].quantity = line.quantity
      ]_vars

---------------------------------------------------------------------------
(* Properties of the registry's methods *)

\* The step is a call of the registry method op
Calls(op) == ncalls' # ncalls /\ args'[MainProc].op = op

C28_UnsubscribeTotalNoEmptyEntries ==
    /\ args[MainProc].op = "disconnect" => result[MainProc].kind = "return"
    /\ \A o \in DOMAIN active_connections : active_connections[o] # << >>

\* disconnect was just called for a websocket that a broadcast had removed as
\* dead, under an order id the registry no longer knows, while the registry
\* holds another order
C28_Witness ==
    /\ args[MainProc].op = "disconnect"
    /\ chan[args[MainProc].websocket].st = "gone"
    /\ args[MainProc].order_id = chan[args[MainProc].websocket].order_id
    /\ args[MainProc].order_id \notin DOMAIN active_connections
    /\ DOMAIN active_connections # {}
    /\ bcast = << >>

---------------------------------------------------------------------------
(* Frame properties *)

\* The quantity and the money columns of the items of order o
Amounts(rows, o) ==
    [i \in 1 .. Len(ItemsIn(rows, o)) |->
        [quantity |-> ItemsIn(rows, o)[i].quantity,
         unit_price |-> ItemsIn(rows, o)[i].unit_price,
         line_total |-> ItemsIn(rows, o)[i].line_total]]

\* C29: no step changes the total_amount of an existing order or the
\* quantity, unit_price or line_total of one of its items, and the total
\* stays the sum of the line totals.
C29_TotalsImmutable ==
    [][\A o \in OrderIds :
          /\ orders'[o].total_amount = orders[o].total_amount
          /\ Amounts(order_items', o) = Amounts(order_items, o)
          /\ orders'[o].total_amount = SumLineTotals(ItemsIn(order_items', o))
      ]_vars

\* An order was paid after the price of one of its items had changed in the
\* catalog
C29_Witness ==
    \E o \in OrderIds :
        /\ orders[o].status = "ACCEPTED"
        /\ orders[o].paypal_capture_id # NULL
        /\ \E i \in 1 .. Len(ItemsOf(o)) :
               ItemsOf(o)[i].unit_price
                   # menu[ItemsOf(o)[i].menu_item_id].price

\* The request of slot p addresses an existing order
OrderCall(p) ==
    /\ args[p].op \in {"update_order_status", "create_paypal_order",
                       "capture_paypal_order"}
    /\ args[p].order_id \in OrderIds

\* C30: a step of a transition, a payment creation or a capture on order A
\* leaves the row, the history, the items and the registered websockets of
\* every other order as they are, and the events it delivers are events of A
\* delivered to websockets registered under A.
C30_OrdersIndependent ==
    [][\A p \in Procs :
          (OrderCall(p) /\ pc'[p] # pc[p]) =>
              LET A == args[p].order_id
              IN  /\ \A B \in OrderIds \ {A} :
                         /\ orders'[B] = orders[B]
                         /\ HistoryIn(history', B) = HistoryIn(history, B)
                         /\ ItemsIn(order_items', B) = ItemsIn(order_items, B)
                         /\ B \in DOMAIN active_connections =>
                                /\ B \in DOMAIN active_connections'
                                /\ active_connections'[B] = active_connections[B]
                  /\ \A ws \in Channels :
                         \A k \in Len(delivered[ws]) + 1 .. Len(delivered'[ws]) :
                             /\ delivered'[ws][k].orderId = A
                             /\ Registered(active_connections, A, ws)
      ]_vars

\* The first order was cancelled by a failed capture while a websocket of
\* each order was registered: only the first order's websocket has an event
C30_Witness ==
    /\ Registered(active_connections, 1, "c1")
    /\ Registered(active_connections, 2, "c2")
    /\ orders[1].status = "CANCELED"
    /\ orders[1].payment_status # NULL
    /\ orders[2] = NewOrder(2, 2, 425)
    /\ delivered["c1"] # << >>
    /\ delivered["c2"] = << >>

====
